---- MODULE Spec2Model ----
(***************************************************************************)
(* A model of the MangaDb document-store service (mongo_db_service.py):    *)
(* the in-memory collections, their line-delimited files, the store        *)
(* operations, the wire codec and the per-connection handler loop.         *)
(*                                                                         *)
(* Spec      one connection handler at a time runs a whole request         *)
(*           (recv, parse, dispatch, file write, send) as one step.        *)
(* SpecConc  the handler threads of several connections interleave at the  *)
(*           statements of _save_document, update, delete and              *)
(*           _update_collection_file (the code takes no lock).             *)
(***************************************************************************)
EXTENDS Integers, Sequences, FiniteSets, TLC

VARIABLES
    collections,  \* self.collections: name -> ordered dict (key, document)
    files,        \* data_dir: name -> lines of <name>.dat
    running,      \* self.running
    hstate,       \* per connection: "NONE", "AWAIT_REQUEST", "CLOSED"
    uuidCount,    \* how many identifiers uuid.uuid4() has produced
    writes,       \* how many INSERT, UPDATE and DELETE requests were dispatched
    last,         \* the last loop iteration of a handler: request and frames sent
    pc,           \* SpecConc: the statement each handler thread is at
    loc,          \* SpecConc: the locals of each handler thread
    hist,         \* SpecConc: the inserts acknowledged so far (history)
    mongo_client, \* SpecPair: the MongoDBClient of the connection and its socket
    server_socket, \* self.server_socket: "listening" or "None"
    acceptLoop    \* the loop of start(): "accept" (in accept()) or "exited"

vars == <<collections, files, running, hstate, uuidCount, writes, last, pc, loc, hist,
          mongo_client, server_socket, acceptLoop>>

-----------------------------------------------------------------------------
(* Bounds of the model *)

MaxWrites == 3    \* INSERT, UPDATE and DELETE requests dispatched in one run

\* the nesting of JSON values at which json.loads and json.dumps raise
\* RecursionError (near 1000 in the interpreter, scaled down)
RecursionLimit == 5

(* Wire Protocol Message Types *)
MSG_TYPE_INSERT == 1
MSG_TYPE_UPDATE == 2
MSG_TYPE_DELETE == 3
MSG_TYPE_FIND == 4
MSG_TYPE_FIND_ONE == 5
MSG_TYPE_RESPONSE == 6
MSG_TYPE_ERROR == 7
MSG_TYPE_LIST_COLLECTIONS == 8

(* Input sets *)
Colls == {"c1", "c2"}          \* collection names a client sends
ClientIds == {1}               \* `_id` values a client chooses
Vals == {1, 2}                 \* values a client gives the field f
Conns == {1, 2}                \* connections the listener accepts
Serial == {1}                  \* Spec: the one connection that is used
DocFields == {"_id", "f"}      \* field names of documents, queries and patches

\* the JSON objects over DocFields whose `_id`, if any, is in ids
ObjectsOver(ids) ==
    {o \in UNION {[S -> ids \cup Vals] : S \in SUBSET DocFields} :
        /\ "_id" \in DOMAIN o => o["_id"] \in ids
        /\ "f" \in DOMAIN o => o["f"] \in Vals}

\* documents and update patches a client sends
Objects == ObjectsOver(ClientIds)

EmptyObject == [k \in {} |-> 0]

\* mutant: every draw gives the same identifier
UuidFixed(n) == 0 - 1

\* uuid.uuid4(): the n-th identifier drawn; never one a client chose
Uuid(n) == 0 - n

\* queries a client sends: it may ask for an identifier the service returned
Queries(issued) == ObjectsOver(ClientIds \cup {Uuid(n) : n \in 1..issued})

-----------------------------------------------------------------------------
(* Python dict (insertion-ordered) as a sequence of [key, doc] entries *)

Keys(d) == {d[i].key : i \in 1..Len(d)}

IndexOf(d, k) == CHOOSE i \in 1..Len(d) : d[i].key = k

\* d[k] = doc : an existing key keeps its position, a new key goes last
DictSet(d, k, doc) ==
    IF k \in Keys(d)
    THEN [d EXCEPT ![IndexOf(d, k)] = [key |-> k, doc |-> doc]]
    ELSE Append(d, [key |-> k, doc |-> doc])

RECURSIVE SeqFilter(_, _)
\* the entries of d whose key is in keep, in order
SeqFilter(d, keep) ==
    IF d = <<>> THEN <<>>
    ELSE IF Head(d).key \in keep
         THEN <<Head(d)>> \o SeqFilter(Tail(d), keep)
         ELSE SeqFilter(Tail(d), keep)

\* list(d.values())
DictValues(d) == [i \in 1..Len(d) |-> d[i].doc]

-----------------------------------------------------------------------------
(* json.dumps / json.loads of one document: a line of the file is the      *)
(* sequence of its (field, value) members                                  *)

FieldOrder == <<"_id", "f">>

RECURSIVE DumpFields(_, _)
DumpFields(doc, fs) ==
    IF fs = <<>> THEN <<>>
    ELSE IF Head(fs) \in DOMAIN doc
         THEN <<<<Head(fs), doc[Head(fs)]>>>> \o DumpFields(doc, Tail(fs))
         ELSE DumpFields(doc, Tail(fs))

json_dumps(doc) == DumpFields(doc, FieldOrder)

\* the last member with a name wins, as json.loads does
json_loads(line) ==
    [k \in {line[i][1] : i \in 1..Len(line)} |->
        line[CHOOSE i \in 1..Len(line) :
                /\ line[i][1] = k
                /\ \A j \in (i+1)..Len(line) : line[j][1] # k][2]]

\* json.loads accepts the text of the line.  A member the text was cut in
\* is the 1-tuple of its name; a line holding one is not JSON.
Parses(line) == \A i \in 1..Len(line) : Len(line[i]) = 2

\* the text of a line cut inside its last member, the "\n" not written
cut_line(line) == SubSeq(line, 1, Len(line) - 1) \o <<<<line[Len(line)][1]>>>>

\* the line has no "\n" yet: its text ends inside a member
Unterminated(line) == line # <<>> /\ Len(line[Len(line)]) = 1

-----------------------------------------------------------------------------
(* The query loop shared by find_one, find, update and delete *)

\* mutant: a document that lacks a queried field still matches
matches_missing(doc, query) ==
    \A key \in DOMAIN query : key \in DOMAIN doc => doc[key] = query[key]

matches(doc, query) ==
    \A key \in DOMAIN query : key \in DOMAIN doc /\ doc[key] = query[key]

-----------------------------------------------------------------------------
(* Persistence: _load_collections, _save_document, _update_collection_file *)

NoCollections == [c \in {} |-> <<>>]

\* m[k] = v on a name -> value mapping
MapSet(m, k, v) == [x \in DOMAIN m \cup {k} |-> IF x = k THEN v ELSE m[x]]

RECURSIVE load_lines_first(_, _)
\* mutant: the first line of an `_id` is kept, later ones are dropped
load_lines_first(lines, d) ==
    IF lines = <<>> THEN d
    ELSE LET doc == json_loads(Head(lines))
         IN  load_lines_first(Tail(lines),
                IF "_id" \in DOMAIN doc /\ doc["_id"] \notin Keys(d)
                THEN DictSet(d, doc["_id"], doc) ELSE d)

RECURSIVE load_lines(_, _)
\* the loop over the lines of one file: each parsed document that has an
\* `_id` is stored under it, a later line replacing an earlier one.  The
\* try statement is around the whole loop: json.loads raising on a line
\* ends the reading of the file, what was loaded so far stays.
load_lines(lines, d) ==
    IF lines = <<>> THEN d
    ELSE IF ~Parses(Head(lines)) THEN d
    ELSE LET doc == json_loads(Head(lines))
         IN  load_lines(Tail(lines),
                        IF "_id" \in DOMAIN doc THEN DictSet(d, doc["_id"], doc) ELSE d)

\* mutant: replay keeps the first line of an `_id`
load_collections_first(fls) == [c \in DOMAIN fls |-> load_lines_first(fls[c], <<>>)]

\* every <name>.dat of the data directory becomes a collection
load_collections(fls) == [c \in DOMAIN fls |-> load_lines(fls[c], <<>>)]

\* text written at the end of a file: it starts a new line unless the
\* file ends inside a line, which it then continues
write_text(lines, text) ==
    IF lines # <<>> /\ Unterminated(lines[Len(lines)])
    THEN [lines EXCEPT ![Len(lines)] = @ \o text]
    ELSE Append(lines, text)

\* mutant: the file is opened with 'w', the new line is all it holds
append_line_fresh(fls, c, document, ioOk) ==
    IF ioOk THEN MapSet(fls, c, <<json_dumps(document)>>) ELSE fls

\* open(path, 'a'); f.write(json.dumps(document) + "\n"): an OSError is
\* logged and swallowed, the file is then left as it was
append_line(fls, c, document, ioOk) ==
    IF ioOk
    THEN MapSet(fls, c, write_text(IF c \in DOMAIN fls THEN fls[c] ELSE <<>>,
                                   json_dumps(document)))
    ELSE fls

\* mutant: a document for an unknown collection only goes to the file
save_document_unlisted(colls, fls, c, document, ioOk) ==
    [collections |-> IF c \in DOMAIN colls
                     THEN [colls EXCEPT ![c] = DictSet(@, document["_id"], document)]
                     ELSE colls,
     files       |-> append_line(fls, c, document, ioOk)]

\* the collection is created when unknown, the document stored under its
\* `_id` (insert has already assigned one), then appended to the file
save_document(colls, fls, c, document, ioOk) ==
    LET created == IF c \notin DOMAIN colls THEN MapSet(colls, c, <<>>) ELSE colls
    IN  [collections |-> [created EXCEPT ![c] = DictSet(@, document["_id"], document)],
         files       |-> append_line(fls, c, document, ioOk)]

\* the lines open(path, 'w') ends up with: one per document, in dict order
file_image(d) == [i \in 1..Len(d) |-> json_dumps(d[i].doc)]

\* mutant: the file is never rewritten
update_collection_file_kept(colls, fls, c, ioOk) == fls

\* open(path, 'w') and one line per document; an OSError is logged and
\* swallowed, the file is then left as it was
update_collection_file(colls, fls, c, ioOk) ==
    IF c \notin DOMAIN colls \/ ~ioOk THEN fls
    ELSE MapSet(fls, c, file_image(colls[c]))

-----------------------------------------------------------------------------
(* The store operations *)

\* returns the stored document, the new store and files, and the `_id`
insert(colls, fls, c, document, uuid, ioOk) ==
    LET doc == IF "_id" \notin DOMAIN document
               THEN MapSet(document, "_id", uuid) ELSE document
        saved == save_document(colls, fls, c, doc, ioOk)
    IN  [collections |-> saved.collections, files |-> saved.files, id |-> doc["_id"]]

\* the indexes of the documents of d matching query, ascending (dict order)
matching(d, query) == {i \in 1..Len(d) : matches(d[i].doc, query)}

\* mutant: the scan keeps the last match instead of returning at the first
find_one_last(colls, c, query) ==
    IF c \notin DOMAIN colls THEN <<>>
    ELSE LET m == matching(colls[c], query)
         IN  IF m = {} THEN <<>>
             ELSE <<colls[c][CHOOSE i \in m : \A j \in m : i >= j].doc>>

\* None is <<>>, a found document doc is <<doc>>
find_one(colls, c, query) ==
    IF c \notin DOMAIN colls THEN <<>>
    ELSE LET m == matching(colls[c], query)
         IN  IF m = {} THEN <<>>
             ELSE <<colls[c][CHOOSE i \in m : \A j \in m : i <= j].doc>>

\* mutant: the scan stops at the first match
find_first(colls, c, query) == find_one(colls, c, query)

find(colls, c, query) ==
    IF c \notin DOMAIN colls THEN <<>>
    ELSE DictValues(SeqFilter(colls[c],
                              {colls[c][i].key : i \in matching(colls[c], query)}))

\* doc[key] = value for every member of the patch, `_id` included
merge(doc, patch) ==
    [k \in DOMAIN doc \cup DOMAIN patch |->
        IF k \in DOMAIN patch THEN patch[k] ELSE doc[k]]

\* mutant: the patch is applied to every document of the collection
update_docs_all(d, query, patch) ==
    [i \in 1..Len(d) |-> [key |-> d[i].key, doc |-> merge(d[i].doc, patch)]]

\* the loop of update over list(items()): matched documents are patched in
\* place, the key they are stored under stays
update_docs(d, query, patch) ==
    [i \in 1..Len(d) |->
        IF matches(d[i].doc, query)
        THEN [key |-> d[i].key, doc |-> merge(d[i].doc, patch)]
        ELSE d[i]]

\* mutant: the file is rewritten whatever the count
update_rewrites(colls, fls, c, query, patch, ioOk) ==
    IF c \notin DOMAIN colls
    THEN [collections |-> colls, files |-> fls, count |-> 0]
    ELSE LET count == Cardinality(matching(colls[c], query))
             after == [colls EXCEPT ![c] = update_docs(@, query, patch)]
         IN  [collections |-> after,
              files |-> update_collection_file(after, fls, c, ioOk),
              count |-> count]

update(colls, fls, c, query, patch, ioOk) ==
    IF c \notin DOMAIN colls
    THEN [collections |-> colls, files |-> fls, count |-> 0]
    ELSE LET count == Cardinality(matching(colls[c], query))
             after == [colls EXCEPT ![c] = update_docs(@, query, patch)]
         IN  [collections |-> after,
              files |-> IF count > 0
                        THEN update_collection_file(after, fls, c, ioOk) ELSE fls,
              count |-> count]

\* the documents matched are removed by key
delete_docs(d, query) ==
    SeqFilter(d, Keys(d) \ {d[i].key : i \in matching(d, query)})

delete(colls, fls, c, query, ioOk) ==
    IF c \notin DOMAIN colls
    THEN [collections |-> colls, files |-> fls, count |-> 0]
    ELSE LET count == Cardinality(matching(colls[c], query))
             after == [colls EXCEPT ![c] = delete_docs(@, query)]
         IN  [collections |-> after,
              files |-> IF count > 0
                        THEN update_collection_file(after, fls, c, ioOk) ELSE fls,
              count |-> count]

-----------------------------------------------------------------------------
(* Message codec.  A chunk of bytes is its first byte and the reading of   *)
(* the rest: "object" (JSON of a mapping, value), "array" (valid JSON that *)
(* is no mapping), "bad_json", "bad_utf8", or "empty" (only a type byte).  *)

Chunk(t, kind, value) == [type |-> t, kind |-> kind, value |-> value]

\* data[0] and json.loads(data[1:].decode('utf-8')); any exception gives
\* MSG_TYPE_ERROR and {"error": str(e)}
parse_message(data) ==
    IF data.kind \in {"object", "array"}
    THEN [msg_type |-> data.type, payload |-> data.value, mapping |-> data.kind = "object"]
    ELSE [msg_type |-> MSG_TYPE_ERROR, payload |-> [error |-> data.kind], mapping |-> TRUE]

\* A member value that is an array nested n deep, [[...[0]...]], is written
\* as a number from 100 on; every other value of the model is flat.
Nested(n) == 100 + n

NestDepth(v) == IF v >= 100 THEN v - 100 ELSE 0

\* json.loads of a request payload {"collection": c, "document": doc}
\* raises RecursionError: the payload, the document, then the value
loads_raises(document) ==
    \E k \in DOMAIN document : 2 + NestDepth(document[k]) > RecursionLimit

\* json.dumps of a response payload raises RecursionError: the payload,
\* the list under "documents" if any, the document, then the value
dumps_raises(payload) ==
    \/ /\ "documents" \in DOMAIN payload
       /\ \E i \in 1..Len(payload.documents) : \E k \in DOMAIN payload.documents[i] :
             3 + NestDepth(payload.documents[i][k]) > RecursionLimit
    \/ /\ "document" \in DOMAIN payload
       /\ payload.document # <<>>
       /\ \E k \in DOMAIN payload.document[1] :
             2 + NestDepth(payload.document[1][k]) > RecursionLimit

\* mutant: every frame is given the type byte of a response
create_response_untyped(msg_type, payload) == Chunk(MSG_TYPE_RESPONSE, "object", payload)

\* bytearray([msg_type]) + json.dumps(payload).encode('utf-8'); when
\* json.dumps raises, the frame is MSG_TYPE_ERROR with {"error": str(e)}
create_response(msg_type, payload) ==
    IF dumps_raises(payload)
    THEN Chunk(MSG_TYPE_ERROR, "object", [error |-> "RecursionError"])
    ELSE Chunk(msg_type, "object", payload)

\* The bytes of a frame whose payload is a flat JSON object: the type byte,
\* then the JSON text (its members; none for "{}").  Bytes that are only a
\* type byte have length 1.
MsgTypes == MSG_TYPE_INSERT..MSG_TYPE_LIST_COLLECTIONS

\* the bytes _create_response returns for a chunk
frame_of(chunk) == <<chunk.type, json_dumps(chunk.value)>>

\* data[0] and the reading of data[1:] that _parse_message starts from
chunk_of(bytes) ==
    IF Len(bytes) = 1 THEN Chunk(bytes[1], "empty", <<>>)
    ELSE IF Parses(bytes[2]) THEN Chunk(bytes[1], "object", json_loads(bytes[2]))
    ELSE Chunk(bytes[1], "bad_json", <<>>)

\* MongoDBClient._send_message: the request frame
client_message(msg_type, payload) == <<msg_type, json_dumps(payload)>>

\* MongoDBClient._send_message: the reading of a response frame
client_response(bytes) == [msg_type |-> bytes[1], payload |-> json_loads(bytes[2])]

\* mutant: the preset payload without its message
UnknownTypeBare == [status |-> "error"]

UnknownType == [status |-> "error", message |-> "Unknown message type"]

-----------------------------------------------------------------------------
(* The loop of _handle_client, one iteration per step.  `last` describes   *)
(* the step just taken: for an iteration, the chunk read, the frames       *)
(* written to the socket during it, and whether its file write (if any)    *)
(* went through.                                                           *)

Step(kind) == [step |-> kind, conn |-> 0, data |-> <<>>, sent |-> <<>>, ioOk |-> TRUE]

Iteration(h, data, sent, ioOk) ==
    [step |-> "request", conn |-> h, data |-> data, sent |-> sent, ioOk |-> ioOk]

\* mutant: the handler leaves the loop after an iteration
LoopTestBreak == "CLOSED"

\* `while self.running` after the response is sent
LoopTest == IF running THEN "AWAIT_REQUEST" ELSE "CLOSED"

\* the handler is blocked in recv
Reading(h) == hstate[h] = "AWAIT_REQUEST"

\* room for one more mutating request under the bound of the model
MayWrite == writes < MaxWrites

\* client_socket.sendall(self._create_response(MSG_TYPE_RESPONSE, payload))
Respond(h, data, payload, ioOk) ==
    /\ last' = Iteration(h, data, <<create_response(MSG_TYPE_RESPONSE, payload)>>, ioOk)
    /\ hstate' = [hstate EXCEPT ![h] = LoopTest]

\* the listener: server_socket and the position of the loop of start()
Listener == <<server_socket, acceptLoop>>

Conc == <<pc, loc, hist, mongo_client, Listener>>

HandleInsert(h, ioOk) ==
    \E c \in Colls, document \in Objects :
        LET data == Chunk(MSG_TYPE_INSERT, "object", [collection |-> c, document |-> document])
            msg  == parse_message(data)
            r    == insert(collections, files, msg.payload.collection,
                           msg.payload.document, Uuid(uuidCount + 1), ioOk)
        IN  /\ Reading(h)
            /\ MayWrite
            /\ msg.msg_type = MSG_TYPE_INSERT
            /\ collections' = r.collections
            /\ files' = r.files
            /\ uuidCount' = IF "_id" \in DOMAIN document THEN uuidCount ELSE uuidCount + 1
            /\ writes' = writes + 1
            /\ Respond(h, data, [status |-> "success", _id |-> r.id], ioOk)
            /\ UNCHANGED <<running, Conc>>

\* documents with a member nested as deep as json.loads takes inside an
\* INSERT payload, one level less, and one level more
DeepObjects ==
    {[k \in S |-> IF k = "_id" THEN 1 ELSE Nested(n)] :
        S \in {{"f"}, {"_id", "f"}},
        n \in {RecursionLimit - 3, RecursionLimit - 2, RecursionLimit - 1}}

\* an INSERT whose document is nested deep: a payload json.loads raises on
\* is answered as an unknown type, nothing stored
HandleInsertDeep(h) ==
    \E c \in Colls, document \in DeepObjects :
        LET data == Chunk(MSG_TYPE_INSERT,
                          IF loads_raises(document) THEN "deep_json" ELSE "object",
                          [collection |-> c, document |-> document])
            msg  == parse_message(data)
            r    == insert(collections, files, msg.payload.collection,
                           msg.payload.document, Uuid(uuidCount + 1), TRUE)
        IN  /\ Reading(h)
            /\ MayWrite
            /\ writes' = writes + 1
            /\ IF msg.msg_type = MSG_TYPE_INSERT
               THEN /\ collections' = r.collections
                    /\ files' = r.files
                    /\ uuidCount' = IF "_id" \in DOMAIN document
                                    THEN uuidCount ELSE uuidCount + 1
                    /\ Respond(h, data, [status |-> "success", _id |-> r.id], TRUE)
               ELSE /\ Respond(h, data, UnknownType, TRUE)
                    /\ UNCHANGED <<collections, files, uuidCount>>
            /\ UNCHANGED <<running, Conc>>

\* queries of the FIND and FIND_ONE requests of the model
ReadQueries == {EmptyObject, [k \in {"_id"} |-> 1], [k \in {"f"} |-> 1]}

HandleFindOne(h) ==
    \E c \in Colls, query \in ReadQueries :
        LET data == Chunk(MSG_TYPE_FIND_ONE, "object", [collection |-> c, query |-> query])
            msg  == parse_message(data)
            result == find_one(collections, msg.payload.collection, msg.payload.query)
        IN  /\ Reading(h)
            /\ msg.msg_type = MSG_TYPE_FIND_ONE
            /\ Respond(h, data, [status |-> "success", document |-> result], TRUE)
            /\ UNCHANGED <<collections, files, running, uuidCount, writes, Conc>>

\* mutant: a FIND on an unknown name creates the collection
HandleFindCreates(h) ==
    \E c \in Colls, query \in ReadQueries :
        LET data == Chunk(MSG_TYPE_FIND, "object", [collection |-> c, query |-> query])
            msg  == parse_message(data)
            results == find(collections, msg.payload.collection, msg.payload.query)
        IN  /\ Reading(h)
            /\ msg.msg_type = MSG_TYPE_FIND
            /\ collections' = IF c \in DOMAIN collections THEN collections
                              ELSE MapSet(collections, c, <<>>)
            /\ Respond(h, data, [status |-> "success", documents |-> results], TRUE)
            /\ UNCHANGED <<files, running, uuidCount, writes, Conc>>

HandleFind(h) ==
    \E c \in Colls, query \in ReadQueries :
        LET data == Chunk(MSG_TYPE_FIND, "object", [collection |-> c, query |-> query])
            msg  == parse_message(data)
            results == find(collections, msg.payload.collection, msg.payload.query)
        IN  /\ Reading(h)
            /\ msg.msg_type = MSG_TYPE_FIND
            /\ Respond(h, data, [status |-> "success", documents |-> results], TRUE)
            /\ UNCHANGED <<collections, files, running, uuidCount, writes, Conc>>

HandleUpdate(h, ioOk) ==
    \E c \in Colls, query \in Queries(uuidCount), patch \in Objects :
        LET data == Chunk(MSG_TYPE_UPDATE, "object",
                          [collection |-> c, query |-> query, update |-> patch])
            msg  == parse_message(data)
            r    == update(collections, files, msg.payload.collection,
                           msg.payload.query, msg.payload.update, ioOk)
        IN  /\ Reading(h)
            /\ MayWrite
            /\ msg.msg_type = MSG_TYPE_UPDATE
            /\ ioOk \/ r.count > 0
            /\ collections' = r.collections
            /\ files' = r.files
            /\ writes' = writes + 1
            /\ Respond(h, data, [status |-> "success", modified_count |-> r.count], ioOk)
            /\ UNCHANGED <<running, uuidCount, Conc>>

HandleDelete(h, ioOk) ==
    \E c \in Colls, query \in Queries(uuidCount) :
        LET data == Chunk(MSG_TYPE_DELETE, "object", [collection |-> c, query |-> query])
            msg  == parse_message(data)
            r    == delete(collections, files, msg.payload.collection,
                           msg.payload.query, ioOk)
        IN  /\ Reading(h)
            /\ MayWrite
            /\ msg.msg_type = MSG_TYPE_DELETE
            /\ ioOk \/ r.count > 0
            /\ collections' = r.collections
            /\ files' = r.files
            /\ writes' = writes + 1
            /\ Respond(h, data, [status |-> "success", deleted_count |-> r.count], ioOk)
            /\ UNCHANGED <<running, uuidCount, Conc>>

HandleListCollections(h) ==
    LET data == Chunk(MSG_TYPE_LIST_COLLECTIONS, "object", EmptyObject)
        msg  == parse_message(data)
    IN  /\ Reading(h)
        /\ msg.msg_type = MSG_TYPE_LIST_COLLECTIONS
        /\ Respond(h, data, [status |-> "success", collections |-> DOMAIN collections], TRUE)
        /\ UNCHANGED <<collections, files, running, uuidCount, writes, Conc>>

KnownTypes == {MSG_TYPE_INSERT, MSG_TYPE_UPDATE, MSG_TYPE_DELETE, MSG_TYPE_FIND,
               MSG_TYPE_FIND_ONE, MSG_TYPE_LIST_COLLECTIONS}

BadKinds == {"bad_json", "bad_utf8", "empty"}

\* chunks whose rest does not decode: invalid JSON, invalid UTF-8, nothing;
\* behind the type byte of a request or behind another byte
Undecodable == {Chunk(t, kind, <<>>) : t \in {MSG_TYPE_INSERT, 9}, kind \in BadKinds}

\* well-formed chunks of a type no branch of the dispatch takes
UnknownTyped == {Chunk(t, "object", EmptyObject) : t \in {0, MSG_TYPE_RESPONSE, MSG_TYPE_ERROR, 9}}

\* no branch of the if/elif chain is taken: the preset error payload is sent
HandleNoBranch(h) ==
    \E data \in Undecodable \cup UnknownTyped :
        LET msg == parse_message(data)
        IN  /\ Reading(h)
            /\ msg.msg_type \notin KnownTypes
            /\ Respond(h, data, UnknownType, TRUE)
            /\ UNCHANGED <<collections, files, running, uuidCount, writes, Conc>>

\* a JSON array as a payload or as a member of one; a mapping is the function
\* from its keys, and no mapping of the model has the one key "array"
JsonArray(items) == [array |-> items]

IsMapping(v) == DOMAIN v # {"array"}

\* requests whose payload, or whose `document`, is no mapping
Malformed ==
    {Chunk(t, "array", JsonArray(<<1>>)) : t \in {MSG_TYPE_INSERT, MSG_TYPE_FIND}}
        \cup {Chunk(MSG_TYPE_INSERT, "object", [collection |-> c, document |-> JsonArray(<<1>>)])
                 : c \in Colls}

\* the statement of the taken branch that raises: payload.get on a list
\* (AttributeError), or insert() testing and setting "_id" on a list (TypeError)
Raises(msg) ==
    \/ msg.msg_type \in {MSG_TYPE_INSERT, MSG_TYPE_FIND_ONE, MSG_TYPE_FIND,
                          MSG_TYPE_UPDATE, MSG_TYPE_DELETE} /\ ~msg.mapping
    \/ /\ msg.msg_type = MSG_TYPE_INSERT /\ msg.mapping
       /\ ~IsMapping(msg.payload.document)

\* the exception leaves the loop before anything is stored or sent: it is
\* printed and the socket is closed
HandleRaise(h) ==
    \E data \in Malformed :
        LET msg == parse_message(data)
        IN  /\ Reading(h)
            /\ Raises(msg)
            /\ hstate' = [hstate EXCEPT ![h] = "CLOSED"]
            /\ last' = Iteration(h, data, <<>>, TRUE)
            /\ UNCHANGED <<collections, files, running, uuidCount, writes, Conc>>

\* recv raises (connection reset): the exception leaves the loop and the
\* socket is closed
SocketError(h) ==
    /\ Reading(h)
    /\ hstate' = [hstate EXCEPT ![h] = "CLOSED"]
    /\ last' = [Step("error") EXCEPT !.conn = h]
    /\ UNCHANGED <<collections, files, running, uuidCount, writes, Conc>>

\* the process dies while the handler of an INSERT is in the append of
\* _save_document: open(path, 'a') has created the file if there was none;
\* of the text handed to f.write the file has got nothing, a part (the text
\* goes to the file as it is, nothing marks where it ends), or all of it.
\* The memory of the process and its sockets are gone.
CrashInAppend(h) ==
    \E c \in Colls, document \in Objects, written \in {"nothing", "part", "all"} :
        LET data  == Chunk(MSG_TYPE_INSERT, "object", [collection |-> c, document |-> document])
            msg   == parse_message(data)
            doc   == IF "_id" \notin DOMAIN msg.payload.document
                     THEN MapSet(msg.payload.document, "_id", Uuid(uuidCount + 1))
                     ELSE msg.payload.document
            was   == IF c \in DOMAIN files THEN files[c] ELSE <<>>
            whole == write_text(was, json_dumps(doc))
        IN  /\ Reading(h)
            /\ MayWrite
            /\ msg.msg_type = MSG_TYPE_INSERT
            /\ files' = MapSet(files, c,
                               CASE written = "nothing" -> was
                                 [] written = "part" ->
                                      [whole EXCEPT ![Len(whole)] = cut_line(@)]
                                 [] written = "all" -> whole)
            /\ collections' = NoCollections
            /\ running' = FALSE
            /\ hstate' = [x \in Conns |-> "CLOSED"]
            /\ server_socket' = "None"
            /\ acceptLoop' = "exited"
            /\ uuidCount' = IF "_id" \in DOMAIN document THEN uuidCount ELSE uuidCount + 1
            /\ writes' = writes + 1
            /\ last' = [Step("crash") EXCEPT !.conn = h, !.data = data]
            /\ UNCHANGED <<pc, loc, hist, mongo_client>>

\* the frame of (t, p) as the client or the service builds it
Encode(by) ==
    \E t \in MsgTypes, p \in Objects :
        /\ last' = [Step("encode") EXCEPT
                       !.data = [by |-> by, type |-> t, payload |-> p,
                                 frame |-> IF by = "client"
                                           THEN client_message(t, p)
                                           ELSE frame_of(create_response(t, p))]]
        /\ UNCHANGED <<collections, files, running, hstate, uuidCount, writes, Conc>>

\* the frame just built as the client or the service reads it
Decode(by) ==
    /\ last.step = "encode"
    /\ last' = [last EXCEPT
                   !.step = "decode",
                   !.sent = <<[by |-> by,
                               msg |-> IF by = "client"
                                       THEN client_response(last.data.frame)
                                       ELSE parse_message(chunk_of(last.data.frame))]>>]
    /\ UNCHANGED <<collections, files, running, hstate, uuidCount, writes, Conc>>

\* documents of the INSERT frames that are not read one frame per recv
FrameDocs == {d \in Objects : "f" \notin DOMAIN d}

\* the connection of h still holds the rest of a frame whose first part
\* the last recv returned
RestPending(h) ==
    last.step = "request" /\ last.conn = h /\ last.data.kind = "cut_json"

\* recv returns the type byte and the first part of the JSON of an INSERT
\* frame (the frame is longer than the read, or the transport delivers it in
\* two pieces): the chunk is parsed and answered like any other
RecvHead(h) ==
    \E c \in Colls, document \in FrameDocs :
        LET data == Chunk(MSG_TYPE_INSERT, "cut_json", [collection |-> c, document |-> document])
            msg  == parse_message(data)
        IN  /\ Reading(h)
            /\ ~RestPending(h)
            /\ msg.msg_type \notin KnownTypes
            /\ Respond(h, data, UnknownType, TRUE)
            /\ UNCHANGED <<collections, files, running, uuidCount, writes, Conc>>

\* the next recv returns that rest: its first byte is a character of JSON
\* text (here 34, a double quote), what follows is no JSON
RecvRest(h) ==
    LET data == Chunk(34, "rest_json", last.data.value)
        msg  == parse_message(data)
    IN  /\ Reading(h)
        /\ RestPending(h)
        /\ msg.msg_type \notin KnownTypes
        /\ Respond(h, data, UnknownType, TRUE)
        /\ UNCHANGED <<collections, files, running, uuidCount, writes, Conc>>

\* recv returns two INSERT frames the client sent one after the other:
\* json.loads of everything behind the first type byte raises (extra data)
RecvTwo(h) ==
    \E c \in Colls, d1, d2 \in FrameDocs :
        LET data == Chunk(MSG_TYPE_INSERT, "two_frames",
                          <<[collection |-> c, document |-> d1],
                            [collection |-> c, document |-> d2]>>)
            msg  == parse_message(data)
        IN  /\ Reading(h)
            /\ ~RestPending(h)
            /\ msg.msg_type \notin KnownTypes
            /\ Respond(h, data, UnknownType, TRUE)
            /\ UNCHANGED <<collections, files, running, uuidCount, writes, Conc>>

\* an INSERT frame read whole, when no rest of another is in the way
RecvWhole(h) == ~RestPending(h) /\ HandleInsert(h, TRUE)

-----------------------------------------------------------------------------
(* The two clients.  A result is what the call gives its caller: the value *)
(* returned, or that it raised.  MongoDBClient sends one request over the  *)
(* wire and returns a member of the response; HTTPClient calls the REST    *)
(* facade, whose handlers call a MongoDBClient of their own.               *)

\* the query {"_id": x}
IdQuery(x) == [k \in {"_id"} |-> x]

Returned(value) == [raised |-> FALSE, value |-> value]

Raised == [raised |-> TRUE, value |-> <<>>]

\* MongoDBClient.find_one, find, update, delete: response.get(...) of the
\* response to the one request
MongoDBClient_find_one(colls, c, query) ==
    LET response == [status |-> "success", document |-> find_one(colls, c, query)]
    IN  Returned(response.document)

MongoDBClient_find(colls, c, query) ==
    LET response == [status |-> "success", documents |-> find(colls, c, query)]
    IN  Returned(response.documents)

MongoDBClient_update(colls, fls, c, query, patch) ==
    LET r == update(colls, fls, c, query, patch, TRUE)
        response == [status |-> "success", modified_count |-> r.count]
    IN  [result |-> Returned(response.modified_count),
         collections |-> r.collections, files |-> r.files]

MongoDBClient_delete(colls, fls, c, query) ==
    LET r == delete(colls, fls, c, query, TRUE)
        response == [status |-> "success", deleted_count |-> r.count]
    IN  [result |-> Returned(response.deleted_count),
         collections |-> r.collections, files |-> r.files]

\* GET /collections/{collection}: every document
get_documents(colls, c) == MongoDBClient_find(colls, c, EmptyObject).value

\* GET /collections/{collection}/{id}: the query is {"_id": id}; 404 when
\* nothing is found
get_document(colls, c, id) ==
    LET document == MongoDBClient_find_one(colls, c, IdQuery(id)).value
    IN  IF document = <<>> THEN [status_code |-> 404, json |-> <<>>]
        ELSE [status_code |-> 200, json |-> document]

\* PUT /collections/{collection}/{id}: 404 when the count is 0
update_document(colls, fls, c, id, patch) ==
    LET r == MongoDBClient_update(colls, fls, c, IdQuery(id), patch)
    IN  [status_code |-> IF r.result.value = 0 THEN 404 ELSE 200,
         modified_count |-> r.result.value,
         collections |-> r.collections, files |-> r.files]

\* DELETE /collections/{collection}/{id}: 404 when the count is 0
delete_document(colls, fls, c, id) ==
    LET r == MongoDBClient_delete(colls, fls, c, IdQuery(id))
    IN  [status_code |-> IF r.result.value = 0 THEN 404 ELSE 200,
         deleted_count |-> r.result.value,
         collections |-> r.collections, files |-> r.files]

\* HTTPClient.find: all documents of the collection, filtered by the client
HTTPClient_find(colls, c, query) ==
    Returned(SelectSeq(get_documents(colls, c), LAMBDA doc : matches(doc, query)))

\* HTTPClient.find_one: with an `_id` in the query the document of that
\* `_id` as the facade gives it, whatever else the query holds
HTTPClient_find_one(colls, c, query) ==
    IF "_id" \in DOMAIN query
    THEN Returned(get_document(colls, c, query["_id"]).json)
    ELSE LET documents == HTTPClient_find(colls, c, query).value
         IN  Returned(IF documents # <<>> THEN <<documents[1]>> ELSE <<>>)

\* HTTPClient.update: by `_id` only, NotImplementedError without one
HTTPClient_update(colls, fls, c, query, patch) ==
    IF "_id" \in DOMAIN query
    THEN LET r == update_document(colls, fls, c, query["_id"], patch)
         IN  [result |-> Returned(r.modified_count),
              collections |-> r.collections, files |-> r.files]
    ELSE [result |-> Raised, collections |-> colls, files |-> fls]

\* HTTPClient.delete: by `_id` only, NotImplementedError without one
HTTPClient_delete(colls, fls, c, query) ==
    IF "_id" \in DOMAIN query
    THEN LET r == delete_document(colls, fls, c, query["_id"])
         IN  [result |-> Returned(r.deleted_count),
              collections |-> r.collections, files |-> r.files]
    ELSE [result |-> Raised, collections |-> colls, files |-> fls]

\* queries and patches of the calls of the model: no field, `_id` alone,
\* another field alone, `_id` with another field
HttpQueries == ReadQueries \cup {[_id |-> 1, f |-> v] : v \in Vals}

HttpPatches == {patch \in Objects : DOMAIN patch = {"f"}}

\* a call of the HTTPClient; h is the connection of the facade's client
Call(h, op, args, result) ==
    /\ Reading(h)
    /\ last' = [Step("http") EXCEPT !.conn = h, !.data = [op |-> op] @@ args,
                                    !.sent = <<result>>]
    /\ hstate' = [hstate EXCEPT ![h] = LoopTest]

HttpFindOne(h) ==
    \E c \in Colls, query \in HttpQueries :
        /\ Call(h, "find_one", [collection |-> c, query |-> query],
                HTTPClient_find_one(collections, c, query))
        /\ UNCHANGED <<collections, files, running, uuidCount, writes, Conc>>

HttpFind(h) ==
    \E c \in Colls, query \in HttpQueries :
        /\ Call(h, "find", [collection |-> c, query |-> query],
                HTTPClient_find(collections, c, query))
        /\ UNCHANGED <<collections, files, running, uuidCount, writes, Conc>>

HttpUpdate(h) ==
    \E c \in Colls, query \in HttpQueries, patch \in HttpPatches :
        LET r == HTTPClient_update(collections, files, c, query, patch)
        IN  /\ MayWrite
            /\ Call(h, "update", [collection |-> c, query |-> query, update |-> patch],
                    r.result)
            /\ collections' = r.collections
            /\ files' = r.files
            /\ writes' = writes + 1
            /\ UNCHANGED <<running, uuidCount, Conc>>

HttpDelete(h) ==
    \E c \in Colls, query \in HttpQueries :
        LET r == HTTPClient_delete(collections, files, c, query)
        IN  /\ MayWrite
            /\ Call(h, "delete", [collection |-> c, query |-> query], r.result)
            /\ collections' = r.collections
            /\ files' = r.files
            /\ writes' = writes + 1
            /\ UNCHANGED <<running, uuidCount, Conc>>

-----------------------------------------------------------------------------
(* The choice of the client by TextualizeClient.  A host name is the       *)
(* sequence of its labels, the text between the dots; a port is <<p>>, and  *)
(* None is <<>>.                                                            *)

DEFAULT_PORT == 27020

\* labels made of digits only
DigitLabels == {"0", "1", "10", "127"}

Hosts == {<<"localhost">>, <<"LOCALHOST">>, <<"myhost">>, <<"127">>,
          <<"127", "0", "0", "1">>, <<"10", "0", "0", "1">>,
          <<"10", "0", "1">>, <<"10", "0", "0", "0", "1">>,
          <<"example", "com">>, <<"db", "onrender", "com">>,
          <<"10", "0", "0", "com">>}

Ports == {<<p>> : p \in {80, 8000, 12345, 27017, DEFAULT_PORT}}

\* mutant: any number of groups of digits
is_ip_address_loose(host) == \A i \in 1..Len(host) : host[i] \in DigitLabels

\* re.match(r"^\d+\.\d+\.\d+\.\d+$", host)
is_ip_address(host) == Len(host) = 4 /\ \A i \in 1..4 : host[i] \in DigitLabels

\* HTTPClient(host, port): the port is not kept; https without a port for a
\* host with a dot, http on port 8000 otherwise
HTTPClient_init(host, port) ==
    [class |-> "HTTPClient", host |-> host, port |-> <<>>,
     base_url |-> IF Len(host) > 1 THEN <<"https", host>> ELSE <<"http", host, 8000>>]

MongoDBClient_init(host, port) ==
    [class |-> "MongoDBClient", host |-> host, port |-> port, base_url |-> <<>>]

\* TextualizeClient(host, port).client
TextualizeClient_init(host, port) ==
    IF host # <<"localhost">> /\ ~is_ip_address(host)
    THEN HTTPClient_init(host, <<>>)
    ELSE IF port # <<>> THEN MongoDBClient_init(host, port)
         ELSE MongoDBClient_init(host, <<DEFAULT_PORT>>)

\* a client object is constructed
NewClient(class) ==
    \E host \in Hosts, port \in Ports :
        /\ last' = [Step("client") EXCEPT
                       !.data = [class |-> class, host |-> host, port |-> port],
                       !.sent = <<IF class = "TextualizeClient"
                                  THEN TextualizeClient_init(host, port)
                                  ELSE HTTPClient_init(host, port)>>]
        /\ UNCHANGED <<collections, files, running, hstate, uuidCount, writes, Conc>>

\* mutant: the end of one connection ends every handler
PeerCloseAll(h) ==
    /\ Reading(h)
    /\ hstate' = [g \in Conns |-> IF hstate[g] = "AWAIT_REQUEST" THEN "CLOSED" ELSE hstate[g]]
    /\ last' = Step("close")
    /\ UNCHANGED <<collections, files, running, uuidCount, writes, Conc>>

\* recv returns b"": the loop breaks and the socket is closed
PeerClose(h) ==
    /\ Reading(h)
    /\ hstate' = [hstate EXCEPT ![h] = "CLOSED"]
    /\ last' = Step("close")
    /\ UNCHANGED <<collections, files, running, uuidCount, writes, Conc>>

\* mutant: a handler reads a request before it tests `self.running`
AcceptReads(h) ==
    /\ acceptLoop = "accept"
    /\ hstate[h] \in {"NONE", "CLOSED"}
    /\ hstate' = [hstate EXCEPT ![h] = "AWAIT_REQUEST"]
    /\ acceptLoop' = IF running THEN "accept" ELSE "exited"
    /\ server_socket' = IF running THEN server_socket ELSE "None"
    /\ last' = Step("accept")
    /\ UNCHANGED <<collections, files, running, uuidCount, writes, pc, loc, hist, mongo_client>>

\* accept() in start() returns a connection: a handler thread is started for
\* it and the loop tests `self.running` again; once that is False the
\* handler's own loop ends at once and start() leaves through stop()
Accept(h) ==
    /\ acceptLoop = "accept"
    /\ hstate[h] \in {"NONE", "CLOSED"}
    /\ hstate' = [hstate EXCEPT ![h] = IF running THEN "AWAIT_REQUEST" ELSE "CLOSED"]
    /\ acceptLoop' = IF running THEN "accept" ELSE "exited"
    /\ server_socket' = IF running THEN server_socket ELSE "None"
    /\ last' = Step("accept")
    /\ UNCHANGED <<collections, files, running, uuidCount, writes, pc, loc, hist, mongo_client>>

\* stop() called by another thread while start() is blocked in accept():
\* whether closing the socket makes that accept() raise is the platform's
\* choice; stop() once start() has returned changes nothing
stop ==
    /\ running' = FALSE
    /\ server_socket' = "None"
    /\ acceptLoop' \in IF server_socket = "listening"
                      THEN {acceptLoop, "exited"} ELSE {acceptLoop}
    /\ last' = IF running THEN Step("stop") ELSE last
    /\ UNCHANGED <<collections, files, hstate, uuidCount, writes, pc, loc, hist, mongo_client>>

\* KeyboardInterrupt or another exception inside accept(): start() leaves the
\* loop through its except clauses and calls stop() in its finally
Interrupt ==
    /\ acceptLoop = "accept"
    /\ acceptLoop' = "exited"
    /\ running' = FALSE
    /\ server_socket' = "None"
    /\ last' = Step("stop")
    /\ UNCHANGED <<collections, files, hstate, uuidCount, writes, pc, loc, hist, mongo_client>>

\* a new process: MongoDBService(data_dir) on the same directory, then start()
Restart ==
    /\ collections' = load_collections(files)
    /\ running' = TRUE
    /\ hstate' = [h \in Conns |-> "NONE"]
    /\ last' = Step("restart")
    /\ server_socket' = "listening"
    /\ acceptLoop' = "accept"
    /\ UNCHANGED <<files, uuidCount, writes, pc, loc, hist, mongo_client>>

\* MongoDBClient after connect(): nothing unread on its socket, no call made
NoClient == [inbox |-> <<>>, calls |-> 0, from |-> {}, result |-> <<>>]

\* the locals of a handler thread between two requests
NoLocals == [op |-> "none", collection |-> "", document |-> EmptyObject,
             query |-> EmptyObject, update |-> EmptyObject, count |-> 0,
             before |-> <<>>, size |-> 0]

\* MongoDBService(data_dir) on an empty directory, then start()
Init ==
    /\ collections = load_collections(NoCollections)
    /\ files = NoCollections
    /\ running = TRUE
    /\ hstate = [h \in Conns |-> "NONE"]
    /\ uuidCount = 0
    /\ writes = 0
    /\ last = Step("init")
    /\ pc = [h \in Conns |-> "recv"]
    /\ loc = [h \in Conns |-> NoLocals]
    /\ hist = [inserted |-> <<>>, rewrites |-> FALSE]
    /\ mongo_client = NoClient
    /\ server_socket = "listening"
    /\ acceptLoop = "accept"

(* Spec: one connection, no I/O error *)
Next ==
    \/ \E h \in Serial : HandleInsert(h, TRUE)
    \/ \E h \in Serial : HandleFindOne(h)
    \/ \E h \in Serial : HandleFind(h)
    \/ \E h \in Serial : HandleUpdate(h, TRUE)
    \/ \E h \in Serial : HandleDelete(h, TRUE)
    \/ \E h \in Serial : HandleListCollections(h)
    \/ \E h \in Serial : HandleNoBranch(h)
    \/ \E h \in Serial : HandleRaise(h)
    \/ \E h \in Serial : PeerClose(h)
    \/ \E h \in Serial : Accept(h)
    \/ Restart

Spec == Init /\ [][Next]_vars

(* SpecInsert: the runs of Spec whose only mutations are inserts *)
NextInsert ==
    \/ \E h \in Serial : HandleInsert(h, TRUE)
    \/ \E h \in Serial : HandleFind(h)
    \/ \E h \in Serial : PeerClose(h)
    \/ \E h \in Serial : Accept(h)
    \/ Restart

SpecInsert == Init /\ [][NextInsert]_vars

(* SpecWrite: the runs of Spec without read-only requests *)
NextWrite ==
    \/ \E h \in Serial : HandleInsert(h, TRUE)
    \/ \E h \in Serial : HandleUpdate(h, TRUE)
    \/ \E h \in Serial : HandleDelete(h, TRUE)
    \/ \E h \in Serial : PeerClose(h)
    \/ \E h \in Serial : Accept(h)
    \/ Restart

SpecWrite == Init /\ [][NextWrite]_vars

(* SpecProto: the runs of Spec made of inserts and of chunks that no branch
   of the dispatch takes *)
NextProto ==
    \/ \E h \in Serial : HandleInsert(h, TRUE)
    \/ \E h \in Serial : HandleNoBranch(h)
    \/ \E h \in Serial : PeerClose(h)
    \/ \E h \in Serial : Accept(h)
    \/ Restart

SpecProto == Init /\ [][NextProto]_vars

(* SpecConn: several connections, each request a step; connections end by
   peer close, socket error or an exception of the handler *)
NextConn ==
    \/ \E h \in Conns : HandleInsert(h, TRUE)
    \/ \E h \in Conns : HandleRaise(h)
    \/ \E h \in Conns : SocketError(h)
    \/ \E h \in Conns : PeerClose(h)
    \/ \E h \in Conns : Accept(h)

SpecConn == Init /\ [][NextConn]_vars

(* SpecStop: one connection at a time, inserts, and the ways the service
   is shut down *)
NextStop ==
    \/ \E h \in Serial : HandleInsert(h, TRUE)
    \/ \E h \in Serial : PeerClose(h)
    \/ \E h \in Serial : Accept(h)
    \/ stop
    \/ Interrupt

SpecStop == Init /\ [][NextStop]_vars

(* SpecHalt: several connections with inserts, and the ways the service
   is shut down *)
NextHalt ==
    \/ \E h \in Conns : HandleInsert(h, TRUE)
    \/ \E h \in Conns : PeerClose(h)
    \/ \E h \in Conns : Accept(h)
    \/ stop
    \/ Interrupt

SpecHalt == Init /\ [][NextHalt]_vars

-----------------------------------------------------------------------------
(* SpecPair: one MongoDBClient on one connection.  A call sends its request,
   the handler dispatches it and writes the response frame to the socket,
   and the client takes what one recv(BUFFER_SIZE) returns.  What is on the
   socket is a sequence of pieces, each at most BUFFER_SIZE bytes of the
   response frame of one call. *)

BUFFER_SIZE == 4096

DocBytes == 2048    \* the JSON text of one document of these runs, in bytes

MaxCalls == 5       \* calls made on the connection in one run

\* len(response) for a frame: the type byte and the documents it carries
\* (the rest of a payload is short)
frame_bytes(chunk) ==
    1 + (IF "documents" \in DOMAIN chunk.value
         THEN DocBytes * Len(chunk.value.documents)
         ELSE IF "document" \in DOMAIN chunk.value /\ chunk.value.document # <<>>
         THEN DocBytes ELSE 0)

Piece(n, part, bytes, chunk) == [call |-> n, part |-> part, bytes |-> bytes, chunk |-> chunk]

RECURSIVE rest_pieces(_, _, _)
\* what follows the first BUFFER_SIZE bytes of a frame
rest_pieces(n, chunk, bytes) ==
    IF bytes <= BUFFER_SIZE THEN <<Piece(n, "tail", bytes, chunk)>>
    ELSE <<Piece(n, "tail", BUFFER_SIZE, chunk)>> \o rest_pieces(n, chunk, bytes - BUFFER_SIZE)

\* sendall(response) of the handler, as the reads of the peer will see it
pieces_of(n, chunk) ==
    IF frame_bytes(chunk) <= BUFFER_SIZE
    THEN <<Piece(n, "whole", frame_bytes(chunk), chunk)>>
    ELSE <<Piece(n, "head", BUFFER_SIZE, chunk)>>
             \o rest_pieces(n, chunk, frame_bytes(chunk) - BUFFER_SIZE)

RECURSIVE Bytes(_)
Bytes(pieces) == IF pieces = <<>> THEN 0 ELSE pieces[1].bytes + Bytes(Tail(pieces))

\* self.socket.recv(BUFFER_SIZE): the first piece, or more of what is
\* there when it fits
Reads(arrived) ==
    {k \in 1..Len(arrived) : Bytes(SubSeq(arrived, 1, k)) <= BUFFER_SIZE}

\* _send_message from the bytes received on: response[0] and json.loads of
\* the rest, which raises unless the bytes are one whole frame; a frame of
\* type MSG_TYPE_ERROR raises too
send_message(taken) ==
    IF Len(taken) = 1 /\ taken[1].part = "whole" /\ taken[1].chunk.type # MSG_TYPE_ERROR
    THEN Returned(taken[1].chunk.value)
    ELSE Raised

\* insert, find_one, find: response.get(field) when status is "success"
ResultField(msg_type) ==
    CASE msg_type = MSG_TYPE_INSERT   -> "_id"
      [] msg_type = MSG_TYPE_FIND_ONE -> "document"
      [] msg_type = MSG_TYPE_FIND     -> "documents"

client_call(msg_type, taken) ==
    LET r == send_message(taken)
    IN  IF r.raised THEN Raised
        ELSE IF "status" \in DOMAIN r.value /\ r.value.status = "success"
        THEN Returned(IF ResultField(msg_type) \in DOMAIN r.value
                      THEN r.value[ResultField(msg_type)] ELSE <<>>)
        ELSE Raised

\* the request of the call in progress has been answered by the handler
Answered(h) == last.step = "request" /\ last.conn = h /\ Len(last.sent) = 1

MayCall == last.step # "request" /\ mongo_client.calls < MaxCalls

CallInsert(h) == MayCall /\ HandleInsert(h, TRUE)

CallFindOne(h) == MayCall /\ HandleFindOne(h)

CallFind(h) == MayCall /\ HandleFind(h)

\* the recv of the call in progress and what the call makes of it
Receive(h) ==
    /\ Answered(h)
    /\ LET n == mongo_client.calls + 1
           arrived == mongo_client.inbox \o pieces_of(n, last.sent[1])
       IN  \E k \in Reads(arrived) :
              mongo_client' = [inbox  |-> SubSeq(arrived, k + 1, Len(arrived)),
                               calls  |-> n,
                               from   |-> {arrived[i].call : i \in 1..k},
                               result |-> client_call(last.data.type, SubSeq(arrived, 1, k))]
    /\ last' = Step("call")
    /\ UNCHANGED <<collections, files, running, hstate, uuidCount, writes, pc, loc,
                   hist, Listener>>

NextPair ==
    \/ \E h \in Serial : Accept(h)
    \/ \E h \in Serial : CallInsert(h)
    \/ \E h \in Serial : CallFindOne(h)
    \/ \E h \in Serial : CallFind(h)
    \/ \E h \in Serial : Receive(h)

SpecPair == Init /\ [][NextPair]_vars

(* SpecList: the runs of Spec made of inserts and listings *)
NextList ==
    \/ \E h \in Serial : HandleInsert(h, TRUE)
    \/ \E h \in Serial : HandleListCollections(h)
    \/ \E h \in Serial : PeerClose(h)
    \/ \E h \in Serial : Accept(h)
    \/ Restart

SpecList == Init /\ [][NextList]_vars

\* an UPDATE whose patch has no `_id`
UpdateFields(h) ==
    HandleUpdate(h, TRUE) /\ "_id" \notin DOMAIN last'.data.value.update

(* SpecMatch: the runs of Spec made of inserts, updates that leave `_id`
   alone, deletes and finds on one connection that stays open *)
NextMatch ==
    \/ \E h \in Serial : HandleInsert(h, TRUE)
    \/ \E h \in Serial : HandleFind(h)
    \/ \E h \in Serial : UpdateFields(h)
    \/ \E h \in Serial : HandleDelete(h, TRUE)
    \/ \E h \in Serial : Accept(h)

SpecMatch == Init /\ [][NextMatch]_vars

(* SpecRead: the runs of Spec made of inserts and of FIND_ONE, FIND and
   LIST_COLLECTIONS requests on one connection that stays open *)
NextRead ==
    \/ \E h \in Serial : HandleInsert(h, TRUE)
    \/ \E h \in Serial : HandleFindOne(h)
    \/ \E h \in Serial : HandleFind(h)
    \/ \E h \in Serial : HandleListCollections(h)
    \/ \E h \in Serial : Accept(h)

SpecRead == Init /\ [][NextRead]_vars

(* SpecDeep: the requests of SpecRead on documents nested deep *)
NextDeep ==
    \/ \E h \in Serial : HandleInsertDeep(h)
    \/ \E h \in Serial : HandleFindOne(h)
    \/ \E h \in Serial : HandleFind(h)
    \/ \E h \in Serial : HandleListCollections(h)
    \/ \E h \in Serial : Accept(h)

SpecDeep == Init /\ [][NextDeep]_vars

(* SpecMutate: the runs of Spec made of inserts, updates and deletes on one
   connection that stays open *)
NextMutate ==
    \/ \E h \in Serial : HandleInsert(h, TRUE)
    \/ \E h \in Serial : HandleUpdate(h, TRUE)
    \/ \E h \in Serial : HandleDelete(h, TRUE)
    \/ \E h \in Serial : Accept(h)

SpecMutate == Init /\ [][NextMutate]_vars

(* SpecCrash: inserts, the death of the process during the append of an
   insert, and restarts on the files it left *)
NextCrash ==
    \/ \E h \in Serial : HandleInsert(h, TRUE)
    \/ \E h \in Serial : CrashInAppend(h)
    \/ \E h \in Serial : Accept(h)
    \/ Restart

SpecCrash == Init /\ [][NextCrash]_vars

(* SpecCodec: frames built by either side and read by either side *)
NextCodec ==
    \/ Encode("client")
    \/ Encode("server")
    \/ Decode("client")
    \/ Decode("server")

SpecCodec == Init /\ [][NextCodec]_vars

(* SpecFrame: INSERT frames that reach the handler whole, in two reads, or
   two in one read *)
NextFrame ==
    \/ \E h \in Serial : RecvWhole(h)
    \/ \E h \in Serial : RecvHead(h)
    \/ \E h \in Serial : RecvRest(h)
    \/ \E h \in Serial : RecvTwo(h)
    \/ \E h \in Serial : Accept(h)

SpecFrame == Init /\ [][NextFrame]_vars

(* SpecHttp: inserts over the wire and calls of the HTTPClient *)
NextHttp ==
    \/ \E h \in Serial : HandleInsert(h, TRUE)
    \/ \E h \in Serial : HttpFindOne(h)
    \/ \E h \in Serial : HttpFind(h)
    \/ \E h \in Serial : HttpUpdate(h)
    \/ \E h \in Serial : HttpDelete(h)
    \/ \E h \in Serial : Accept(h)

SpecHttp == Init /\ [][NextHttp]_vars

(* SpecClient: the constructions of TextualizeClient and HTTPClient *)
NextClient ==
    \/ NewClient("TextualizeClient")
    \/ NewClient("HTTPClient")

SpecClient == Init /\ [][NextClient]_vars

(* SpecIo: the mutating requests of Spec when a file write may fail *)
NextIo ==
    \/ \E h \in Serial, ioOk \in BOOLEAN : HandleInsert(h, ioOk)
    \/ \E h \in Serial, ioOk \in BOOLEAN : HandleUpdate(h, ioOk)
    \/ \E h \in Serial, ioOk \in BOOLEAN : HandleDelete(h, ioOk)
    \/ \E h \in Serial : Accept(h)
    \/ Restart

SpecIo == Init /\ [][NextIo]_vars

-----------------------------------------------------------------------------
(* SpecConc: the handler threads of the connections run concurrently; the  *)
(* code takes no lock, so a thread may be preempted between any two        *)
(* statements.  A step is a statement, or a run of statements, of          *)
(* _save_document, update, delete and _update_collection_file.  All        *)
(* requests go to one collection and all documents have the fields `_id`   *)
(* and f with one-digit values, so every line of the file has the same     *)
(* number of bytes.                                                        *)

ConcColl == "c1"

ConcIds == {1, 2}

ConcDocs == {[k \in DocFields |-> IF k = "_id" THEN i ELSE v] : i \in ConcIds, v \in Vals}

ConcPatches == {[k \in {"f"} |-> v] : v \in Vals}

ConcQueries == {EmptyObject} \cup {[k \in {"_id"} |-> i] : i \in ConcIds}

Store == <<running, uuidCount, last, mongo_client, Listener>>

\* recv, _parse_message and the call of insert: the document has an `_id`
RecvInsert(h) ==
    \E document \in ConcDocs :
        /\ Reading(h) /\ pc[h] = "recv" /\ MayWrite
        /\ writes' = writes + 1
        /\ loc' = [loc EXCEPT ![h] = [NoLocals EXCEPT !.op = "insert",
                                         !.collection = ConcColl, !.document = document]]
        /\ pc' = [pc EXCEPT ![h] = "save_check"]
        /\ UNCHANGED <<collections, files, hstate, hist, Store>>

\* `if collection_name not in self.collections:`
SaveCheck(h) ==
    /\ pc[h] = "save_check"
    /\ pc' = [pc EXCEPT ![h] = IF loc[h].collection \notin DOMAIN collections
                               THEN "save_create" ELSE "save_store"]
    /\ UNCHANGED <<collections, files, hstate, writes, loc, hist, Store>>

\* `self.collections[collection_name] = {}`, whatever is there by now
SaveCreate(h) ==
    /\ pc[h] = "save_create"
    /\ collections' = MapSet(collections, loc[h].collection, <<>>)
    /\ pc' = [pc EXCEPT ![h] = "save_store"]
    /\ UNCHANGED <<files, hstate, writes, loc, hist, Store>>

\* `self.collections[collection_name][document["_id"]] = document`
SaveStore(h) ==
    /\ pc[h] = "save_store"
    /\ collections' = [collections EXCEPT ![loc[h].collection] =
                          DictSet(@, loc[h].document["_id"], loc[h].document)]
    /\ pc' = [pc EXCEPT ![h] = "save_append"]
    /\ UNCHANGED <<files, hstate, writes, loc, hist, Store>>

\* open(path, 'a'), write, close: the line goes to the end of the file
SaveAppend(h) ==
    /\ pc[h] = "save_append"
    /\ files' = append_line(files, loc[h].collection, loc[h].document, TRUE)
    /\ pc' = [pc EXCEPT ![h] = "send"]
    /\ UNCHANGED <<collections, hstate, writes, loc, hist, Store>>

\* recv, _parse_message and the call of update
RecvUpdate(h) ==
    \E query \in ConcQueries, patch \in ConcPatches :
        /\ Reading(h) /\ pc[h] = "recv" /\ MayWrite
        /\ writes' = writes + 1
        /\ loc' = [loc EXCEPT ![h] = [NoLocals EXCEPT !.op = "update",
                      !.collection = ConcColl, !.query = query, !.update = patch]]
        /\ hist' = [hist EXCEPT !.rewrites = TRUE]
        /\ pc' = [pc EXCEPT ![h] = "apply"]
        /\ UNCHANGED <<collections, files, hstate, Store>>

\* recv, _parse_message and the call of delete
RecvDelete(h) ==
    \E query \in ConcQueries :
        /\ Reading(h) /\ pc[h] = "recv" /\ MayWrite
        /\ writes' = writes + 1
        /\ loc' = [loc EXCEPT ![h] = [NoLocals EXCEPT !.op = "delete",
                      !.collection = ConcColl, !.query = query]]
        /\ hist' = [hist EXCEPT !.rewrites = TRUE]
        /\ pc' = [pc EXCEPT ![h] = "apply"]
        /\ UNCHANGED <<collections, files, hstate, Store>>

\* update or delete up to `if count > 0:`: the scan and the in-memory change
Apply(h) ==
    LET c == loc[h].collection
        r == IF loc[h].op = "update"
             THEN update(collections, files, c, loc[h].query, loc[h].update, FALSE)
             ELSE delete(collections, files, c, loc[h].query, FALSE)
    IN  /\ pc[h] = "apply"
        /\ collections' = r.collections
        /\ loc' = [loc EXCEPT ![h].count = r.count]
        /\ pc' = [pc EXCEPT ![h] = IF r.count > 0 THEN "file_open" ELSE "send"]
        /\ UNCHANGED <<files, hstate, writes, hist, Store>>

\* _update_collection_file: open(path, 'w') truncates the file
FileOpen(h) ==
    LET c == loc[h].collection
    IN  /\ pc[h] = "file_open"
        /\ loc' = [loc EXCEPT ![h].before = IF c \in DOMAIN files THEN files[c] ELSE <<>>]
        /\ files' = MapSet(files, c, <<>>)
        /\ pc' = [pc EXCEPT ![h] = "file_write"]
        /\ UNCHANGED <<collections, hstate, writes, hist, Store>>

\* bytes written at offset 0 replace what is there; what lies beyond stays
Overlay(image, current) == image \o SubSeq(current, Len(image) + 1, Len(current))

\* the loop over values() fills the buffer; close() writes it at offset 0
FileWrite(h) ==
    LET c == loc[h].collection
    IN  /\ pc[h] = "file_write"
        /\ files' = MapSet(files, c, Overlay(file_image(collections[c]), files[c]))
        /\ pc' = [pc EXCEPT ![h] = "send"]
        /\ UNCHANGED <<collections, hstate, writes, loc, hist, Store>>

\* sendall of the response; an insert is now acknowledged to its client
Send(h) ==
    /\ pc[h] = "send"
    /\ hist' = IF loc[h].op = "insert"
               THEN [hist EXCEPT !.inserted = Append(@, [conn |-> h, doc |-> loc[h].document])]
               ELSE hist
    /\ loc' = [loc EXCEPT ![h] = NoLocals]
    /\ pc' = [pc EXCEPT ![h] = "recv"]
    /\ UNCHANGED <<collections, files, hstate, writes, Store>>

NextConc ==
    \/ \E h \in Conns : Accept(h)
    \/ \E h \in Conns : RecvInsert(h)
    \/ \E h \in Conns : SaveCheck(h)
    \/ \E h \in Conns : SaveCreate(h)
    \/ \E h \in Conns : SaveStore(h)
    \/ \E h \in Conns : SaveAppend(h)
    \/ \E h \in Conns : RecvUpdate(h)
    \/ \E h \in Conns : RecvDelete(h)
    \/ \E h \in Conns : Apply(h)
    \/ \E h \in Conns : FileOpen(h)
    \/ \E h \in Conns : FileWrite(h)
    \/ \E h \in Conns : Send(h)

SpecConc == Init /\ [][NextConc]_vars

\* recv, _parse_message and the call of find, up to the first turn of the
\* loop over `self.collections[collection_name].values()`: the iterator
\* notes the size of the dict and yields the first document, if any
RecvFind(h) ==
    LET size == IF ConcColl \in DOMAIN collections THEN Len(collections[ConcColl]) ELSE 0
    IN  /\ Reading(h) /\ pc[h] = "recv"
        /\ loc' = [loc EXCEPT ![h] = [NoLocals EXCEPT !.op = "find", !.collection = ConcColl,
                                         !.size = size, !.count = IF size > 0 THEN 1 ELSE 0]]
        /\ pc' = [pc EXCEPT ![h] = IF size > 0 THEN "scan" ELSE "send"]
        /\ UNCHANGED <<collections, files, hstate, writes, hist, Store>>

\* the body of the loop for the document in hand, then the iterator again:
\* it raises RuntimeError when its dict has changed size, which leaves
\* _handle_client through its except (nothing is sent, the socket is
\* closed).  Collections only grow here: a dict that is not longer is
\* either unchanged or another object, put there by _save_document, while
\* the iterator still walks the old one.
ScanNext(h) ==
    LET d == collections[loc[h].collection]
    IN  /\ pc[h] = "scan"
        /\ IF Len(d) > loc[h].size
           THEN /\ pc' = [pc EXCEPT ![h] = "raised"]
                /\ hstate' = [hstate EXCEPT ![h] = "CLOSED"]
                /\ loc' = loc
           ELSE /\ pc' = [pc EXCEPT ![h] = IF loc[h].count = loc[h].size
                                          THEN "send" ELSE "scan"]
                /\ loc' = [loc EXCEPT ![h].count = IF @ = loc[h].size THEN @ ELSE @ + 1]
                /\ hstate' = hstate
        /\ UNCHANGED <<collections, files, writes, hist, Store>>

(* SpecScan: the threads of SpecConc serving INSERT and FIND requests *)
NextScan ==
    \/ \E h \in Conns : Accept(h)
    \/ \E h \in Conns : RecvInsert(h)
    \/ \E h \in Conns : SaveCheck(h)
    \/ \E h \in Conns : SaveCreate(h)
    \/ \E h \in Conns : SaveStore(h)
    \/ \E h \in Conns : SaveAppend(h)
    \/ \E h \in Conns : RecvFind(h)
    \/ \E h \in Conns : ScanNext(h)
    \/ \E h \in Conns : Send(h)

SpecScan == Init /\ [][NextScan]_vars

-----------------------------------------------------------------------------
(* Properties *)

Docs(seq) == {seq[i] : i \in 1..Len(seq)}

Entries(d) == {d[i] : i \in 1..Len(d)}

\* the step described by l is the dispatch of a decoded request of type t
\* that has been answered
IsRequest(l, t) ==
    l.step = "request" /\ l.data.kind = "object" /\ l.data.type = t /\ Len(l.sent) = 1

Response(l) == l.sent[1].value

\* C1: right after insert(c, d) has answered id, find_one(c, {"_id": id})
\* is d with `_id` set to id: same fields, same values, nothing more.
RoundTrip ==
    IsRequest(last, MSG_TYPE_INSERT) =>
        LET c  == last.data.value.collection
            d  == last.data.value.document
            id == Response(last)["_id"]
        IN  find_one(collections, c, IdQuery(id)) = <<merge(d, IdQuery(id))>>

\* C2: in runs whose only mutations are inserts (no I/O error), a service
\* constructed on the data directory finds in every collection the same
\* documents, by `_id` and field values, as the running service does.
DurableInserts ==
    \A c \in Colls :
        Docs(find(load_collections(files), c, EmptyObject))
            = Docs(find(collections, c, EmptyObject))

\* C2 witness: a restart after three inserts, one of them replacing a
\* document, has rebuilt a collection of two documents from its file
DurableInsertsWitness ==
    /\ last.step = "restart"
    /\ \E c \in DOMAIN collections : Len(collections[c]) = 2 /\ Len(files[c]) = 3

\* C5: update(c, {"_id": x}, patch) leaves every other collection and every
\* document of c whose `_id` is not x as they were; a document whose `_id`
\* is x gets the patch values and keeps its other fields.
UpdateScoping ==
    [][ (IsRequest(last', MSG_TYPE_UPDATE) /\ DOMAIN last'.data.value.query = {"_id"}) =>
          LET c     == last'.data.value.collection
              x     == last'.data.value.query["_id"]
              patch == last'.data.value.update
          IN  /\ DOMAIN collections' = DOMAIN collections
              /\ \A o \in DOMAIN collections \ {c} : collections'[o] = collections[o]
              /\ c \in DOMAIN collections =>
                   /\ Len(collections'[c]) = Len(collections[c])
                   /\ \A i \in 1..Len(collections[c]) :
                        LET old == collections[c][i].doc
                            new == collections'[c][i].doc
                        IN  IF old["_id"] = x
                            THEN /\ DOMAIN new = DOMAIN old \cup DOMAIN patch
                                 /\ \A k \in DOMAIN patch : new[k] = patch[k]
                                 /\ \A k \in DOMAIN old \ DOMAIN patch : new[k] = old[k]
                            ELSE collections'[c][i] = collections[c][i]
      ]_vars

\* C5 witness: an update by `_id` has patched f in one of two documents;
\* the patched one keeps its `_id`, the other one has another `_id`
UpdateScopingWitness ==
    /\ IsRequest(last, MSG_TYPE_UPDATE)
    /\ DOMAIN last.data.value.query = {"_id"}
    /\ DOMAIN last.data.value.update = {"f"}
    /\ Response(last).modified_count = 1
    /\ Len(collections[last.data.value.collection]) = 2
    /\ \E i \in 1..2 :
         collections[last.data.value.collection][i].doc["_id"]
            # last.data.value.query["_id"]

\* C6: delete(c, {field: v}) removes from c exactly the documents that have
\* field with value v, find(c, {}) then returns the others, and the other
\* collections are as they were.
DeleteScoping ==
    [][ (IsRequest(last', MSG_TYPE_DELETE) /\ Cardinality(DOMAIN last'.data.value.query) = 1) =>
          LET c     == last'.data.value.collection
              query == last'.data.value.query
              field == CHOOSE k \in DOMAIN query : TRUE
              hit(doc) == field \in DOMAIN doc /\ doc[field] = query[field]
          IN  /\ DOMAIN collections' = DOMAIN collections
              /\ \A o \in DOMAIN collections \ {c} : collections'[o] = collections[o]
              /\ c \in DOMAIN collections =>
                   /\ Entries(collections'[c])
                        = {e \in Entries(collections[c]) : ~hit(e.doc)}
                   /\ Len(collections'[c]) = Cardinality(Entries(collections'[c]))
                   /\ Docs(find(collections', c, EmptyObject))
                        = {e.doc : e \in {e \in Entries(collections[c]) : ~hit(e.doc)}}
                   /\ Response(last').deleted_count
                        = Cardinality({e \in Entries(collections[c]) : hit(e.doc)})
      ]_vars

\* C6 witness: a delete by the field f has removed a document and left one
\* that has no field f
DeleteScopingWitness ==
    /\ IsRequest(last, MSG_TYPE_DELETE)
    /\ DOMAIN last.data.value.query = {"f"}
    /\ Response(last).deleted_count = 1
    /\ \E i \in 1..Len(collections[last.data.value.collection]) :
         "f" \notin DOMAIN collections[last.data.value.collection][i].doc

\* C7: a document that stays stored (same collection, same key) keeps the
\* `_id` it was stored with, whatever the step.
IdImmutable ==
    [][ \A c \in DOMAIN collections \cap DOMAIN collections' :
          \A i \in 1..Len(collections[c]) : \A j \in 1..Len(collections'[c]) :
             collections'[c][j].key = collections[c][i].key
                => collections'[c][j].doc["_id"] = collections[c][i].doc["_id"]
      ]_vars

\* C8: a request whose file write failed is answered with status "error".
IoErrorsSurfaced ==
    (last.step = "request" /\ ~last.ioOk) => Response(last).status = "error"

\* C10: for a chunk whose payload does not decode, decoding yields the
\* ERROR type instead of raising, the store and the files stay as they
\* were, exactly one frame is sent, its status is "error", and the handler
\* awaits the next request.
ProtocolErrorKeepsOpen ==
    [][ (last'.step = "request" /\ last'.data.kind \in BadKinds) =>
          /\ parse_message(last'.data).msg_type = MSG_TYPE_ERROR
          /\ collections' = collections
          /\ files' = files
          /\ Len(last'.sent) = 1
          /\ Response(last').status = "error"
          /\ hstate'[last'.conn] = "AWAIT_REQUEST"
      ]_vars

\* C10 witness: a handler has answered a chunk holding only a type byte,
\* over a store that holds documents, and is reading again
ProtocolErrorWitness ==
    /\ last.step = "request"
    /\ last.data.kind = "empty"
    /\ \E c \in DOMAIN collections : Len(collections[c]) > 0
    /\ hstate[last.conn] = "AWAIT_REQUEST"


\* C3: when every handler has completed and all requests so far were
\* inserts of documents with pairwise different `_id`, the collection holds
\* exactly the acknowledged documents and its file holds exactly one
\* parseable line for each of them.
InsertsAllKept ==
    LET acked == hist.inserted
        want == {acked[i].doc : i \in 1..Len(acked)}
    IN  (/\ \A h \in Conns : pc[h] = "recv"
         /\ ~hist.rewrites
         /\ acked # <<>>
         /\ \A i, j \in 1..Len(acked) :
               i # j => acked[i].doc["_id"] # acked[j].doc["_id"])
        => /\ ConcColl \in DOMAIN collections
           /\ Docs(DictValues(collections[ConcColl])) = want
           /\ ConcColl \in DOMAIN files
           /\ Len(files[ConcColl]) = Len(acked)
           /\ {json_loads(files[ConcColl][i]) : i \in 1..Len(files[ConcColl])} = want

\* a handler has run a statement of a store operation and not yet its last
InOperation(h) ==
    pc[h] \in {"save_create", "save_store", "save_append", "file_open", "file_write"}

\* C4: no two handlers are inside store operations on the same collection
\* at once; between the truncate and the write of a rewrite the file holds
\* nothing another handler put there.
MutualExclusion ==
    /\ \A h1, h2 \in Conns :
          (h1 # h2 /\ InOperation(h1) /\ InOperation(h2))
             => loc[h1].collection # loc[h2].collection
    /\ \A h \in Conns : pc[h] = "file_write" => files[loc[h].collection] = <<>>

\* C9: while a rewrite is under way the file holds either all the lines it
\* held before or all the lines of the collection.
AtomicRewrite ==
    \A h \in Conns :
        pc[h] = "file_write" =>
            \/ files[loc[h].collection] = loc[h].before
            \/ files[loc[h].collection] = file_image(collections[loc[h].collection])

\* the chunk is a request of a known type with a payload, or a `document`,
\* that is no mapping
IsMalformed(data) ==
    /\ data.kind \in {"object", "array"}
    /\ data.type \in KnownTypes
    /\ \/ ~IsMapping(data.value)
       \/ /\ data.type = MSG_TYPE_INSERT
          /\ "document" \in DOMAIN data.value
          /\ ~IsMapping(data.value.document)

\* C11: a request of a known type whose payload is no mapping, or an INSERT
\* whose document is no mapping, is answered with one frame of status
\* "error" and its connection stays open.
MalformedRejected ==
    (last.step = "request" /\ IsMalformed(last.data))
        => /\ Len(last.sent) = 1
           /\ Response(last).status = "error"
           /\ hstate[last.conn] # "CLOSED"

\* C12: the frame written back for a chunk that does not decode, or whose
\* type is unknown, has the type byte ERROR (7) and a payload of status
\* "error" with a message.
ErrorFrameType ==
    (/\ last.step = "request"
     /\ last.data.kind \in BadKinds \/ last.data.type \notin KnownTypes)
        => /\ Len(last.sent) = 1
           /\ last.sent[1].type = MSG_TYPE_ERROR
           /\ Response(last).status = "error"
           /\ "message" \in DOMAIN Response(last)

\* C13: a request whose type byte is none of INSERT, UPDATE, DELETE, FIND,
\* FIND_ONE, LIST_COLLECTIONS is answered with the payload
\* {"status": "error", "message": "Unknown message type"}, and the
\* collections and the files stay as they are.
UnknownTypeAnswer ==
    [][(last'.step = "request" /\ last'.data.type \notin KnownTypes)
          => /\ Len(last'.sent) = 1
             /\ Response(last') = [status |-> "error", message |-> "Unknown message type"]
             /\ collections' = collections
             /\ files' = files]_vars

\* a client has sent a chunk of type RESPONSE to a store holding a document
UnknownTypeWitness ==
    /\ last.step = "request"
    /\ last.data.type = MSG_TYPE_RESPONSE
    /\ Len(last.sent) = 1
    /\ \E c \in DOMAIN collections : collections[c] # <<>>

HandlerStateMachine ==
    [][\A h \in Conns :
          /\ (hstate[h] = "AWAIT_REQUEST" /\ last'.step = "request" /\ last'.conn = h)
                => /\ Len(last'.sent) = 1
                   /\ hstate'[h] = "AWAIT_REQUEST"
          /\ (hstate[h] = "AWAIT_REQUEST" /\ hstate'[h] = "CLOSED")
                => last'.step \in {"close", "error"}
          /\ (hstate[h] = "CLOSED" /\ last'.step \notin {"accept", "restart"})
                => /\ hstate'[h] = "CLOSED"
                   /\ ~(last'.step = "request" /\ last'.conn = h /\ last' # last)]_vars

\* C16: whatever the other handlers are doing, a connection that arrives
\* while start() is in accept() can be accepted, and no handler that has
\* read a request ends without having written its response.
IndependentHandlers ==
    \A h \in Conns :
        /\ (acceptLoop = "accept" /\ hstate[h] = "NONE") => ENABLED Accept(h)
        /\ pc[h] # "raised"

\* C17: once stop() has been called no connection is accepted any more, and
\* running stays False and the server socket stays None whatever happens,
\* another stop() included.
Shutdown ==
    [][~running => /\ last'.step # "accept"
                   /\ ~running'
                   /\ server_socket' = "None"]_vars

\* C18: an insert makes the set of collection names the old set plus the
\* name it inserts into; a LIST_COLLECTIONS request answers the set of
\* names and changes no collection, so two listings with no mutation
\* between them answer the same set.
Listing ==
    [][/\ IsRequest(last', MSG_TYPE_INSERT)
             => DOMAIN collections' = DOMAIN collections \cup {last'.data.value.collection}
       /\ IsRequest(last', MSG_TYPE_LIST_COLLECTIONS)
             => /\ Response(last').collections = DOMAIN collections'
                /\ collections' = collections]_vars

\* a listing that names a collection made by the insert of an empty document
ListingWitness ==
    /\ IsRequest(last, MSG_TYPE_LIST_COLLECTIONS)
    /\ \E c \in Response(last).collections :
          /\ Len(collections[c]) = 1
          /\ DOMAIN collections[c][1].doc = {"_id"}
          /\ collections[c][1].doc["_id"] = Uuid(1)

\* C19: no step (insert, update, delete, restart on the same data
\* directory) takes a name out of the set of collection names.
NamesKept ==
    [][DOMAIN collections \subseteq DOMAIN collections']_vars

\* the documents of collection c, as a set
Stored(c) == IF c \in DOMAIN collections THEN Docs(DictValues(collections[c])) ELSE {}

\* the entries of collection c, as a set
StoredEntries(c) == IF c \in DOMAIN collections THEN Entries(collections[c]) ELSE {}

FirstOf(results) == IF results = <<>> THEN <<>> ELSE <<results[1]>>

\* C21: in every store state find_one(c, q) is the first document of
\* find(c, q), and None when find(c, q) is empty or c is not a collection; a
\* FIND_ONE request is answered with that document and leaves the store as
\* it was, so a second FIND_ONE with no mutation in between answers the same.
FindOneAgrees ==
    [][/\ \A c \in Colls, q \in ReadQueries :
             find_one(collections', c, q) = FirstOf(find(collections', c, q))
       /\ IsRequest(last', MSG_TYPE_FIND_ONE) =>
             LET req == last'.data.value
             IN  /\ collections' = collections
                 /\ Response(last').status = "success"
                 /\ Response(last').document
                      = FirstOf(find(collections, req.collection, req.query))
                 /\ Response(last').document
                      = find_one(collections', req.collection, req.query)]_vars

\* a FIND_ONE answered with a document while find gives two or more for the
\* same query, and a FIND_ONE on a name that is not a collection
FindOneAgreesWitness ==
    /\ IsRequest(last, MSG_TYPE_FIND_ONE)
    /\ Response(last).document # <<>>
    /\ Len(find(collections, last.data.value.collection, last.data.value.query)) >= 2
    /\ \E c \in Colls : c \notin DOMAIN collections

\* no document of collection c has every field of q with the value q gives
NoMatch(c, q) ==
    \A d \in Stored(c) : \E k \in DOMAIN q : k \notin DOMAIN d \/ d[k] # q[k]

\* C22: an UPDATE or DELETE on a name that is not a collection, or with a
\* query no document matches, leaves the store and every file as they were
\* (the collection is not created) and is answered with status "success"
\* and a count of 0.
NoOpWrites ==
    [][LET req == last'.data.value
       IN  /\ IsRequest(last', MSG_TYPE_UPDATE) /\ NoMatch(req.collection, req.query)
                 => /\ collections' = collections
                    /\ files' = files
                    /\ Response(last') = [status |-> "success", modified_count |-> 0]
           /\ IsRequest(last', MSG_TYPE_DELETE) /\ NoMatch(req.collection, req.query)
                 => /\ collections' = collections
                    /\ files' = files
                    /\ Response(last') = [status |-> "success", deleted_count |-> 0]]_vars

\* an UPDATE that matched nothing in a collection whose file holds more
\* lines than the collection has documents, while another name is still
\* no collection
NoOpWritesWitness ==
    /\ IsRequest(last, MSG_TYPE_UPDATE)
    /\ Response(last).modified_count = 0
    /\ last.data.value.collection \in DOMAIN collections
    /\ Len(files[last.data.value.collection])
         > Len(collections[last.data.value.collection])
    /\ \E c \in Colls : c \notin DOMAIN collections

\* the lines of the file of collection c, none when there is no such file
FileLines(fls, c) == IF c \in DOMAIN fls THEN fls[c] ELSE <<>>

\* C23: an INSERT of a document without `_id` is answered with an identifier
\* that no document of the collection had, as key or as `_id`, and the
\* collection has exactly one document more; an INSERT of a document with
\* an `_id` is answered with that `_id`; either way the collection exists
\* afterwards and its file has one line more, the stored document.
InsertIdentifier ==
    [][IsRequest(last', MSG_TYPE_INSERT) =>
         LET req == last'.data.value
             c   == req.collection
             id  == Response(last')._id
             was == IF c \in DOMAIN collections THEN collections[c] ELSE <<>>
         IN  /\ Response(last').status = "success"
             /\ c \in DOMAIN collections'
             /\ "_id" \in DOMAIN req.document => id = req.document["_id"]
             /\ "_id" \notin DOMAIN req.document
                   => /\ \A e \in Entries(was) : e.key # id /\ e.doc["_id"] # id
                      /\ Len(collections'[c]) = Len(was) + 1
             /\ \E e \in Entries(collections'[c]) :
                    /\ e.key = id
                    /\ e.doc = [k \in DOMAIN req.document \cup {"_id"} |->
                                   IF k = "_id" THEN id ELSE req.document[k]]
                    /\ Len(FileLines(files', c)) = Len(FileLines(files, c)) + 1
                    /\ SubSeq(FileLines(files', c), 1, Len(FileLines(files, c)))
                         = FileLines(files, c)
                    /\ json_loads(FileLines(files', c)[Len(FileLines(files', c))]) = e.doc]_vars

\* the second INSERT without `_id` into a collection that held a document
\* with an `_id` the client chose, while another name is still no collection
InsertIdentifierWitness ==
    /\ IsRequest(last, MSG_TYPE_INSERT)
    /\ "_id" \notin DOMAIN last.data.value.document
    /\ Response(last)._id = Uuid(2)
    /\ Len(collections[last.data.value.collection]) = 3
    /\ \E e \in Entries(collections[last.data.value.collection]) : e.key \in ClientIds
    /\ \E c \in Colls : c \notin DOMAIN collections

\* the indexes of the lines of a file that carry identifier id
LinesOf(lines, id) ==
    {i \in 1..Len(lines) :
        "_id" \in DOMAIN json_loads(lines[i]) /\ json_loads(lines[i])["_id"] = id}

\* C24: right after a load, for every `_id` some line of a collection file
\* carries, the collection holds exactly one document under that `_id`, and
\* it is the document of the last line carrying it; so a document inserted
\* over an existing `_id` is, after a restart, the newest version.
ReplayLastWins ==
    last.step = "restart" =>
        \A c \in DOMAIN files :
            /\ c \in DOMAIN collections
            /\ \A i \in 1..Len(files[c]) :
                  LET doc  == json_loads(files[c][i])
                      same == LinesOf(files[c], doc["_id"])
                      newest == CHOOSE j \in same : \A k \in same : k <= j
                  IN  "_id" \in DOMAIN doc =>
                        /\ Cardinality({n \in 1..Len(collections[c]) :
                                           collections[c][n].key = doc["_id"]}) = 1
                        /\ find_one(collections, c, IdQuery(doc["_id"]))
                             = <<json_loads(files[c][newest])>>

\* a restart on a file with two lines of one `_id` that differ, the
\* collection holding the document of the later line
ReplayLastWinsWitness ==
    /\ last.step = "restart"
    /\ \E c \in DOMAIN files : \E i, j \in 1..Len(files[c]) :
          /\ i < j
          /\ files[c][i] # files[c][j]
          /\ j \in LinesOf(files[c], json_loads(files[c][i])["_id"])
          /\ json_loads(files[c][j]) \in Stored(c)
          /\ json_loads(files[c][i]) \notin Stored(c)

\* C25: right after a load every line of every collection file that parses
\* and has an `_id` is in its collection, whatever lines that do not parse
\* stand before or after it in the same file or in other files.
LoadSkipsBadLines ==
    last.step = "restart" =>
        \A c \in DOMAIN files :
            /\ c \in DOMAIN collections
            /\ \A i \in 1..Len(files[c]) :
                  Parses(files[c][i]) /\ "_id" \in DOMAIN json_loads(files[c][i])
                      => json_loads(files[c][i])["_id"] \in Keys(collections[c])

\* C28: when the process has died in the append of an insert, every line
\* of every collection file is a complete line.
NoHalfLine ==
    last.step = "crash" =>
        \A c \in DOMAIN files : \A i \in 1..Len(files[c]) : Parses(files[c][i])

Inserted(req) ==
    \E d \in Stored(req.collection) :
        \A k \in DOMAIN req.document : k \in DOMAIN d /\ d[k] = req.document[k]

\* C27: a read that brings only the first part of a request frame writes no
\* response; the read that brings the rest dispatches the request and
\* writes its one response; a read that brings two request frames
\* dispatches both and writes two responses, in request order.
FramingIndependent ==
    last.step = "request" =>
        /\ last.data.kind = "cut_json" => last.sent = <<>>
        /\ last.data.kind = "rest_json"
              => /\ Len(last.sent) = 1
                 /\ last.sent[1].value.status = "success"
                 /\ Inserted(last.data.value)
        /\ last.data.kind = "two_frames"
              => /\ Len(last.sent) = 2
                 /\ \A i \in 1..2 : /\ last.sent[i].value.status = "success"
                                     /\ Inserted(last.data.value[i])

\* both calls raised, or both returned and returned the same
SameResult(x, y) == x.raised = y.raised /\ (~x.raised => x.value = y.value)

\* C29: a call of find, find_one, update or delete on the HTTPClient gives
\* what the same call with the same arguments on a MongoDBClient gives in
\* the same store state, and leaves the store as that call would.
SameInterface ==
    [][last'.step = "http" =>
         LET a == last'.data
             result == last'.sent[1]
         IN  /\ a.op = "find_one"
                   => SameResult(result,
                                 MongoDBClient_find_one(collections, a.collection, a.query))
             /\ a.op = "find"
                   => SameResult(result,
                                 MongoDBClient_find(collections, a.collection, a.query))
             /\ a.op = "update"
                   => LET r == MongoDBClient_update(collections, files, a.collection,
                                                    a.query, a.update)
                      IN  /\ SameResult(result, r.result)
                          /\ collections' = r.collections
                          /\ files' = r.files
             /\ a.op = "delete"
                   => LET r == MongoDBClient_delete(collections, files, a.collection, a.query)
                      IN  /\ SameResult(result, r.result)
                          /\ collections' = r.collections
                          /\ files' = r.files]_vars

\* a dotted IPv4 address: four groups of digits
DottedQuad(host) == Len(host) = 4 /\ \A i \in 1..4 : host[i] \in DigitLabels

\* C30: TextualizeClient(host, port) has a MongoDBClient with that host and
\* that port when host is "localhost" or four groups of digits, and
\* otherwise an HTTPClient whose port is None and whose base_url is the same
\* for every port; an HTTPClient constructed with a port has port None and
\* a base_url that is the same for every port.
ClientSelection ==
    last.step = "client" =>
        LET host == last.data.host
            port == last.data.port
            client == last.sent[1]
            ViaHttp == /\ client.class = "HTTPClient"
                       /\ client.host = host
                       /\ client.port = <<>>
                       /\ \A q \in Ports \cup {<<>>} :
                             HTTPClient_init(host, q).base_url = client.base_url
        IN  /\ last.data.class = "HTTPClient" => ViaHttp
            /\ last.data.class = "TextualizeClient"
                  => IF host = <<"localhost">> \/ DottedQuad(host)
                     THEN /\ client.class = "MongoDBClient"
                          /\ client.host = host
                          /\ client.port = port
                     ELSE ViaHttp

\* TextualizeClient("10.0.1", 12345): three groups of digits, an HTTPClient
ClientSelectionWitness ==
    /\ last.step = "client"
    /\ last.data.class = "TextualizeClient"
    /\ last.data.host = <<"10", "0", "1">>
    /\ last.data.port = <<12345>>
    /\ last.sent[1].class = "HTTPClient"

\* the step described by l is an answered INSERT, UPDATE or DELETE request
IsMutation(l) ==
    \/ IsRequest(l, MSG_TYPE_INSERT)
    \/ IsRequest(l, MSG_TYPE_UPDATE)
    \/ IsRequest(l, MSG_TYPE_DELETE)

\* C31: on one connection and with no I/O error, right after every answered
\* INSERT, UPDATE or DELETE (an insert over an existing `_id` and an update
\* whose patch has `_id` included) the replay of each collection file gives
\* the collection in memory: the same keys, the same document under each.
DiskMirrorsMemory ==
    IsMutation(last) =>
        /\ DOMAIN files = DOMAIN collections
        /\ \A c \in DOMAIN collections :
              Entries(load_collections(files)[c]) = Entries(collections[c])

\* C32: every stored document has its key as `_id`, so no two documents of
\* a collection have the same `_id` and find_one by `_id` x gives nothing
\* but the document stored under x.
IdentifierUnique ==
    \A c \in DOMAIN collections :
        /\ \A i \in 1..Len(collections[c]) :
              collections[c][i].doc["_id"] = collections[c][i].key
        /\ \A i, j \in 1..Len(collections[c]) :
              collections[c][i].doc["_id"] = collections[c][j].doc["_id"] => i = j
        /\ \A x \in ClientIds \cup {Uuid(n) : n \in 1..MaxWrites} :
              find_one(collections, c, IdQuery(x)) # <<>> =>
                 [key |-> x, doc |-> find_one(collections, c, IdQuery(x))[1]]
                     \in Entries(collections[c])

\* C33: an INSERT into collection c leaves what the file of c held as the
\* beginning of what it holds afterwards, adds exactly one line, the JSON
\* text of the document now stored under the answered `_id`, and leaves
\* the file of every other collection as it was.
InsertAppendOnly ==
    [][ IsRequest(last', MSG_TYPE_INSERT) =>
          LET c   == last'.data.value.collection
              old == FileLines(files, c)
              id  == Response(last')._id
          IN  /\ DOMAIN files' = DOMAIN files \cup {c}
              /\ Len(files'[c]) = Len(old) + 1
              /\ SubSeq(files'[c], 1, Len(old)) = old
              /\ <<json_loads(files'[c][Len(old) + 1])>>
                    = find_one(collections', c, IdQuery(id))
              /\ files'[c][Len(old) + 1]
                    = json_dumps(find_one(collections', c, IdQuery(id))[1])
              /\ \A o \in DOMAIN files \ {c} : files'[o] = files[o]
      ]_vars

\* an insert over an `_id` the collection already has has been answered:
\* the file keeps the old line and ends with the new one, and the file of
\* another collection exists
InsertAppendOnlyWitness ==
    /\ IsRequest(last, MSG_TYPE_INSERT)
    /\ LET c == last.data.value.collection
       IN  /\ Len(files[c]) >= 2
           /\ Cardinality(LinesOf(files[c], Response(last)._id)) = 2
           /\ files[c][1] # files[c][Len(files[c])]
           /\ \E o \in DOMAIN files \ {c} : files[o] # <<>>

\* the number of documents of collection c that have every field of q with
\* the value q gives it
MatchCount(c, q) ==
    IF c \notin DOMAIN collections THEN 0
    ELSE Cardinality({i \in 1..Len(collections[c]) :
            \A k \in DOMAIN q : /\ k \in DOMAIN collections[c][i].doc
                                /\ collections[c][i].doc[k] = q[k]})

\* C34: an UPDATE is answered with the number of documents that matched
\* the query before it, also when the patch changes no value; a DELETE is
\* answered with the number of documents it removed, the size of the
\* collection before minus its size after; and when that count is not 0 the
\* file of the collection holds afterwards exactly the documents in memory,
\* one line each.
CountsAndRewrite ==
    [][LET req   == last'.data.value
           c     == req.collection
           image == [i \in 1..Len(collections'[c]) |-> json_dumps(collections'[c][i].doc)]
       IN  /\ IsRequest(last', MSG_TYPE_UPDATE) =>
                 /\ Response(last') = [status |-> "success",
                                       modified_count |-> MatchCount(c, req.query)]
                 /\ MatchCount(c, req.query) > 0 => files'[c] = image
           /\ IsRequest(last', MSG_TYPE_DELETE) =>
                 /\ Response(last') = [status |-> "success",
                                       deleted_count |-> MatchCount(c, req.query)]
                 /\ MatchCount(c, req.query) > 0 =>
                       /\ MatchCount(c, req.query)
                             = Len(collections[c]) - Len(collections'[c])
                       /\ files'[c] = image]_vars

\* an UPDATE with an empty patch has been answered with a count of 2, and
\* the file holds the two documents of the collection
CountsAndRewriteWitness ==
    /\ IsRequest(last, MSG_TYPE_UPDATE)
    /\ last.data.value.update = EmptyObject
    /\ Response(last).modified_count = 2
    /\ Len(files[last.data.value.collection]) = 2
    /\ Len(collections[last.data.value.collection]) = 2

\* C35: a FIND, FIND_ONE or LIST_COLLECTIONS request, on a collection or
\* on a name that is none, leaves the store, its collection names included,
\* and every file as they were; FIND on a name that is no collection is
\* answered with status "success" and no documents, FIND_ONE with status
\* "success" and no document.
ReadsChangeNothing ==
    [][LET c == last'.data.value.collection
       IN  /\ \/ IsRequest(last', MSG_TYPE_FIND)
              \/ IsRequest(last', MSG_TYPE_FIND_ONE)
              \/ IsRequest(last', MSG_TYPE_LIST_COLLECTIONS)
              => /\ collections' = collections
                 /\ DOMAIN collections' = DOMAIN collections
                 /\ files' = files
           /\ IsRequest(last', MSG_TYPE_FIND) /\ c \notin DOMAIN collections
              => Response(last') = [status |-> "success", documents |-> <<>>]
           /\ IsRequest(last', MSG_TYPE_FIND_ONE) /\ c \notin DOMAIN collections
              => Response(last') = [status |-> "success", document |-> <<>>]]_vars

\* a FIND on a name that is no collection has been answered with no
\* documents, while the other collection holds documents and has a file
ReadsChangeNothingWitness ==
    /\ IsRequest(last, MSG_TYPE_FIND)
    /\ last.data.value.collection \notin DOMAIN collections
    /\ last.data.value.collection \notin DOMAIN files
    /\ Response(last).documents = <<>>
    /\ \E o \in DOMAIN collections : collections[o] # <<>> /\ files[o] # <<>>

\* the field a "success" payload carries for each type of request
OperationField ==
    [t \in KnownTypes |->
        CASE t = MSG_TYPE_INSERT           -> "_id"
          [] t = MSG_TYPE_FIND_ONE         -> "document"
          [] t = MSG_TYPE_FIND             -> "documents"
          [] t = MSG_TYPE_UPDATE           -> "modified_count"
          [] t = MSG_TYPE_DELETE           -> "deleted_count"
          [] t = MSG_TYPE_LIST_COLLECTIONS -> "collections"]

\* C36: every frame the server writes has a payload that is a mapping with
\* `status` equal to "success" or "error", and a "success" payload has the
\* field of the operation requested.
EveryResponseHasStatus ==
    \A i \in 1..Len(last.sent) :
        LET payload == last.sent[i].value
        IN  /\ last.sent[i].kind = "object"
            /\ "status" \in DOMAIN payload
            /\ payload.status \in {"success", "error"}
            /\ payload.status = "success" =>
                  /\ last.data.type \in KnownTypes
                  /\ OperationField[last.data.type] \in DOMAIN payload

\* C37: a FIND that runs while other connections insert into the same
\* collection never fails and never closes its connection.
ConcurrentReads ==
    \A h \in Conns :
        loc[h].op = "find" => /\ pc[h] # "raised"
                              /\ hstate[h] # "CLOSED"

\* C38: once running is False, a handler that is still open dispatches at
\* most one more request, the one it was reading, and then closes its
\* socket; a handler started after that closes without reading a request.
HandlersAfterShutdown ==
    [][~running =>
         \A h \in Conns :
            /\ (Reading(h) /\ last'.step = "request" /\ last'.conn = h
                    /\ writes' # writes)
                  => hstate'[h] = "CLOSED"
            /\ (~Reading(h) /\ hstate'[h] # hstate[h]) => hstate'[h] = "CLOSED"
            /\ ~Reading(h)
                  => ~(last'.step = "request" /\ last'.conn = h /\ writes' # writes)
      ]_vars

\* after stop() one handler has dispatched the request it was reading and
\* has closed, while the other is still blocked in its read
HandlersAfterShutdownWitness ==
    /\ ~running
    /\ last.step = "request"
    /\ hstate[last.conn] = "CLOSED"
    /\ \E g \in Conns \ {last.conn} : hstate[g] = "AWAIT_REQUEST"

\* C39: on one MongoDBClient connection, what a call returns or raises is
\* made from the response frame the server wrote for that same call, and
\* from nothing else.
ResponsePairing ==
    mongo_client.calls > 0 => mongo_client.from = {mongo_client.calls}
====
